---- MODULE Spec2Model ----
(***************************************************************************)
(* Paillier voting core of phe-voting-js: key generation, encryption,      *)
(* decryption, homomorphic addition, signatures, the membership proof and  *)
(* the bit-field vote codec.                                               *)
(*                                                                         *)
(* The library is a set of static functions on arbitrary-precision         *)
(* integers.  Every function is an operator computed as the code computes  *)
(* it; the variables hold the values a caller passes from one call to the  *)
(* next (key pair, ciphertext, commitment, signature) and the caller's     *)
(* position pc.  Values the code draws from the random generator are       *)
(* chosen with \E in the action that makes the call.                       *)
(*                                                                         *)
(* TLC integers are 32 bits wide, so the arithmetic runs on keys of 6 and  *)
(* 8 bits (n = 35 and n = 143) instead of 160 bits and more, and the hash  *)
(* width is scaled with them (HashBits).  All products stay below 2^31.    *)
(***************************************************************************)
EXTENDS Integers, Sequences, FiniteSets, TLC

VARIABLES
    pc,         \* position of the caller
    pub,        \* PublicKey  [n, g, nSquared]
    priv,       \* PrivateKey [lambda, mu]
    c,          \* the ciphertext in hand (encrypt's result, or the accumulator)
    r,          \* the masking value encryptWithR returned with c
    sum,        \* the plaintext(s) that went into c, added up as integers
                \* (taken modulo n by the operations with a scalar)
    added,      \* number of homomorphic operations folded into c
    d,          \* decrypt's result
    err,        \* the error the last call raised, "none" when it returned
    hashOf,     \* the hash values computed so far, by message
    sig,        \* Signature [s1, s2]
    vmsg,       \* the message handed to verifySignature
    verified,   \* result of verifySignature / verifyZkp
    valid,      \* the list of valid messages handed to encryptWithZkp
    commitment, \* ZkpCommitment [a, e, z] that createZkp returned
    hashA,      \* the array hashed for the challenge and its hash [a, h]
    vc,         \* the ciphertext handed to verifyZkp, as [m, r, c]
    vcomm,      \* the commitment handed to verifyZkp
    ballot,     \* [numChoices, bitsPerChoice, numBins, bits] of a vote
    votes,      \* the votes cast, counted by bin and choice
    plain,      \* the sum of the encoded votes, as the set of its 1 bits
    decoded,    \* result of decode / decodeGroups
    args,       \* the choices and the bin handed to the encoder
    scalar,     \* the scalar handed to the last addScalar / mulScalar
    kg,         \* generateKeyPair's argument bits and the primes {p, q} it ended with
    list,       \* result of getSingleChoicePermutations
    total       \* result of getTotalVotesBits

proofVars == <<valid, commitment, hashA, vc, vcomm>>

listVars == <<list, total>>

tallyVars == <<ballot, votes, plain, decoded, args, list, total>>

vars == <<pc, pub, priv, c, r, sum, added, d, err, hashOf, sig, vmsg, verified,
          valid, commitment, hashA, vc, vcomm, ballot, votes, plain, decoded,
          args, scalar, kg, list, total>>

----------------------------------------------------------------------------
(* Bounds of the model *)

KeySizes == {160, 168}  \* key sizes the callers ask for (keys of 6 and 8 bits here)
MaxKeyBits == 176       \* largest key size asked of generateKeyPair
MaxOut   == 2           \* plaintexts are tried up to MaxOut outside [0, n)
MaxAdds  == 3           \* addEncrypted calls folded into one accumulator
MaxPlain == 2           \* plaintexts added to a sum: the MaxPlain smallest and largest
MaxR     == 2           \* masking values r: the MaxR smallest and the largest
MaxE     == 1           \* challenges e[i]: the MaxE smallest and the largest
MaxZ     == 1           \* omega and z[i]: the MaxZ smallest and the largest
MaxH     == 1           \* hashes of an array: the MaxH smallest and the largest
MaxMsg   == 1           \* messages to sign are 0..MaxMsg
MaxValid == 3           \* the valid lists are <<1, ..., k>> for k <= MaxValid
MaxVotes == 3           \* votes cast into one tally
MaxChoices == 3         \* numChoices is 2..MaxChoices
MaxBins  == 2           \* numBins is 0..MaxBins

\* the values of bitsPerChoice a vote is set up with
BitsPerChoice == {2, 8, 31, 32, 33}

\* the key sizes a tally is decrypted under
TallyKeySizes == {160, 256}

\* Number.MAX_SAFE_INTEGER is 2^MaxSafeBits - 1
MaxSafeBits == 53

\* width of the hash in bits: 256 in the code, scaled with the key size so
\* that, as there, 2^HashBits exceeds the smallest n and stays below its square
HashBits == 7

NoKey == [n |-> 0, g |-> 0, nSquared |-> 0]
NoPriv == [lambda |-> 0, mu |-> 0]
None == -1              \* register that holds no value yet
NoSig == [s1 |-> None, s2 |-> None]
Messages == 0..MaxMsg
Hole == -2              \* an array slot that was never assigned
NoCommitment == [a |-> <<>>, e |-> <<>>, z |-> <<>>]
NoCipher == [m |-> None, r |-> None, c |-> None]
NoHash == [a |-> <<>>, h |-> None]
NoKeyGen == [bits |-> None, primes |-> {}]
NoArgs == [op |-> "none", choices |-> <<>>, bin |-> 0]
NoBallot == [numChoices |-> 0, bitsPerChoice |-> 0, numBins |-> 0, bits |-> 0]

----------------------------------------------------------------------------
(* big-integer arithmetic, as the library computes it *)

\* 2^k
RECURSIVE Pow2(_)
Pow2(k) == IF k <= 0 THEN 1 ELSE 2 * Pow2(k - 1)

Abs(x) == IF x < 0 THEN -x ELSE x

\* BigInteger.mod: the remainder takes the sign of the dividend
JsMod(a, b) == IF a >= 0 THEN a % b ELSE -((-a) % b)

\* BigInteger.divide: the quotient is truncated towards zero
JsDiv(a, b) == IF a >= 0 THEN a \div b ELSE -((-a) \div b)

\* BigInteger.bitLength
RECURSIVE bitLength(_)
bitLength(x) == IF Abs(x) = 0 THEN 0 ELSE 1 + bitLength(Abs(x) \div 2)

\* bigInt.gcd
RECURSIVE gcd(_, _)
gcd(a, b) == IF b = 0 THEN Abs(a) ELSE gcd(b, Abs(a) % Abs(b))

\* a.multiply(b).mod(m) for 0 <= a, b < m, by doubling, so that no
\* intermediate value exceeds 2 * m
RECURSIVE mulModLoop(_, _, _)
mulModLoop(a, b, m) ==
    IF b = 0 THEN 0
    ELSE LET half == mulModLoop(a, b \div 2, m)
         IN (((half + half) % m) + (IF b % 2 = 1 THEN a ELSE 0)) % m

\* a.multiply(b).mod(m): the product itself where it fits the machine
\* integer of the model checker, the same remainder by doubling where not
mulMod(a, b, m) ==
    IF b = 0 \/ Abs(a) <= 2147483647 \div Abs(b) THEN JsMod(a * b, m)
    ELSE LET v == mulModLoop(Abs(a) % m, Abs(b) % m, m)
         IN IF (a < 0) # (b < 0) THEN -v ELSE v

\* BigInteger.modPow: square and multiply on base mod m, returning 0 as soon
\* as the base is 0 while exponent bits remain
RECURSIVE modPowLoop(_, _, _, _)
modPowLoop(acc, base, exp, m) ==
    IF exp <= 0 THEN acc
    ELSE IF base = 0 THEN 0
    ELSE modPowLoop(IF exp % 2 = 1 THEN JsMod(acc * base, m) ELSE acc,
                    JsMod(base * base, m), exp \div 2, m)

\* the same loop for a modulus whose square exceeds the machine integer
RECURSIVE modPowLoopWide(_, _, _, _)
modPowLoopWide(acc, base, exp, m) ==
    IF exp <= 0 THEN acc
    ELSE IF base = 0 THEN 0
    ELSE modPowLoopWide(IF exp % 2 = 1 THEN mulMod(acc, base, m) ELSE acc,
                        mulMod(base, base, m), exp \div 2, m)

\* the largest modulus whose square fits the machine integer
NarrowModulus == 46340

\* BigInteger.modInv: extended Euclid on |a|; the code throws when the last
\* remainder is not 1, which is the case exactly when gcd(a, m) # 1
RECURSIVE modInvLoop(_, _, _, _)
modInvLoop(t, newT, rr, newR) ==
    IF newR = 0 THEN t
    ELSE LET q == JsDiv(rr, newR)
         IN modInvLoop(newT, t - q * newT, newR, rr - q * newR)

CanInvert(a, m) == gcd(a, m) = 1

modInv(a, m) ==
    LET t  == modInvLoop(0, 1, m, Abs(a))
        tp == IF t < 0 THEN t + m ELSE t
    IN IF a < 0 THEN -tp ELSE tp

\* a negative exponent is made positive and the base replaced by its inverse
modPow(base, exp, m) ==
    IF exp < 0 THEN modPowLoop(1, modInv(JsMod(base, m), m), -exp, m)
    ELSE modPowLoop(1, JsMod(base, m), exp, m)

\* BigInteger.modPow for an exponent >= 0 and a modulus of any size
modPowWide(base, exp, m) ==
    IF m > NarrowModulus THEN modPowLoopWide(1, JsMod(base, m), exp, m)
    ELSE modPowLoop(1, JsMod(base, m), exp, m)

----------------------------------------------------------------------------
(* BigMath: random generator *)

IsPrime(x) == x >= 2 /\ \A k \in 2..(x - 1) : k * k > x \/ x % k # 0

\* BigMath.generateRandomPrime(bits): a prime of bit-length bits
generateRandomPrime(bits) == {x \in Pow2(bits - 1)..(Pow2(bits) - 1) : IsPrime(x)}

\* BigMath.generateCoprime(n, bits): a positive number of at most bits bits
\* that is coprime to n
generateCoprime(n, bits) == {x \in 1..(Pow2(bits) - 1) : gcd(x, n) = 1}

\* BigMath.generateRandom(bits): a number of at most bits bits
generateRandom(bits) == 0..(Pow2(bits) - 1)

\* BigMath.positiveMod: the representative in [0, m)
positiveMod(x, m) == JsMod(JsMod(x, m) + m, m)

\* the w smallest / the w largest elements of a set of numbers
RECURSIVE Lowest(_, _)
Lowest(S, w) ==
    IF w <= 0 \/ S = {} THEN {}
    ELSE LET lo == CHOOSE x \in S : \A y \in S : x <= y
         IN {lo} \cup Lowest(S \ {lo}, w - 1)

RECURSIVE Highest(_, _)
Highest(S, w) ==
    IF w <= 0 \/ S = {} THEN {}
    ELSE LET hi == CHOOSE x \in S : \A y \in S : y <= x
         IN {hi} \cup Highest(S \ {hi}, w - 1)

\* the w smallest elements of S and its largest
Pick(S, w) == Lowest(S, w) \cup Highest(S, 1)

\* the w smallest and the w largest elements of S
Ends(S, w) == Lowest(S, w) \cup Highest(S, w)

\* BigMath.bigIntHashFromBigInt / bigIntHashFromBigIntArray: a hash of
\* HashBits bits.  Any value of that width can be the hash of an input; the
\* same input hashes to the same value every time.
HashValues == 0..(Pow2(HashBits) - 1)

----------------------------------------------------------------------------
(* PublicKey, PrivateKey, Signature, ZkpCommitment *)

\* new ZkpCommitment(capacity): three arrays of capacity unassigned slots
ZkpCommitment(capacity) ==
    [a |-> [i \in 1..capacity |-> Hole],
     e |-> [i \in 1..capacity |-> Hole],
     z |-> [i \in 1..capacity |-> Hole]]

Signature(s1, s2) == [s1 |-> s1, s2 |-> s2]

PublicKey(n, g) == [n |-> n, g |-> g, nSquared |-> n * n]

PrivateKey(lambda, mu) == [lambda |-> lambda, mu |-> mu]

----------------------------------------------------------------------------
(* Paillier *)

\* generateKeyPair's test of its argument
MinKeyBits == 160
KeyBitsStep == 8

\* keySizeRejected with the test of the multiple of 8 left out
keySizeRejectedNoStep(bits) == bits < MinKeyBits

keySizeRejected(bits) == JsMod(bits, KeyBitsStep) > 0 \/ bits < MinKeyBits

\* the sizes asked of generateKeyPair: every integer up to MaxKeyBits
KeyRequests == (0 - MaxOut)..MaxKeyBits

\* bit-length in the model of a key of bits bits: 160, 168, 176, ... stand at
\* 6, 8, 10, ... bits, so that bits / 2 is a whole number of bits as there
modelBits(bits) == 6 + (bits - MinKeyBits) \div 4

\* keyLoopExits with the outer loop's test of the bit-length left out
keyLoopExitsAnyLength(p, q, bits) == p # q

\* the condition on which both do-while loops of generateKeyPair are left
keyLoopExits(p, q, bits) == p # q /\ bitLength(p * q) = bits

\* generateKeyPair with mu the inverse of u itself, L(u) = (u - 1) / n left out
keyPairOfNoL(p, q) ==
    LET n      == p * q
        lambda == JsDiv((p - 1) * (q - 1), gcd(p - 1, q - 1))
        g      == n + 1
        u      == modPowWide(g, lambda, n * n)
        mu     == modInv(u, n)
    IN <<PublicKey(n, g), PrivateKey(lambda, mu)>>

\* generateKeyPair after the loops, for the primes p, q they exit with
keyPairOf(p, q) ==
    LET n      == p * q
        lambda == JsDiv((p - 1) * (q - 1), gcd(p - 1, q - 1))
        g      == n + 1
        u      == modPowWide(g, lambda, n * n)
        u2     == JsDiv(u - 1, n)
        mu     == modInv(u2, n)
    IN <<PublicKey(n, g), PrivateKey(lambda, mu)>>

\* encryptWithR with g^m taken as n * m, the 1 of the binomial dropped
encryptWithRNoUnit(m, pk, rv) ==
    IF m >= pk.n THEN [err |-> "BadPlaintext", c |-> None, r |-> None]
    ELSE LET gm == JsMod(pk.n * m, pk.nSquared)
             rn == modPow(rv, pk.n, pk.nSquared)
         IN [err |-> "none", c |-> JsMod(gm * rn, pk.nSquared), r |-> rv]

\* encryptWithR: returns [err, c, r]
encryptWithR(m, pk, rv) ==
    IF m >= pk.n THEN [err |-> "BadPlaintext", c |-> None, r |-> None]
    ELSE LET gm == JsMod(pk.n * m + 1, pk.nSquared)
             rn == modPow(rv, pk.n, pk.nSquared)
         IN [err |-> "none", c |-> JsMod(gm * rn, pk.nSquared), r |-> rv]

\* the values encryptWithoutR can draw for r: coprime to n, and below n
\* because the do-while loop draws again otherwise
drawR(pk) == {x \in generateCoprime(pk.n, bitLength(pk.n)) : ~(x >= pk.n)}

\* decrypt with the ciphertext n^2 itself let through
decryptOffByOne(cv, pk, sk) ==
    IF cv > pk.nSquared THEN [err |-> "BadCiphertext", m |-> None]
    ELSE LET u == modPow(cv, sk.lambda, pk.nSquared)
         IN [err |-> "none",
             m |-> JsMod(JsDiv(u - 1, pk.n) * sk.mu, pk.n)]

\* decrypt: returns [err, m]
decrypt(cv, pk, sk) ==
    IF cv >= pk.nSquared THEN [err |-> "BadCiphertext", m |-> None]
    ELSE LET u == modPow(cv, sk.lambda, pk.nSquared)
         IN [err |-> "none",
             m |-> JsMod(JsDiv(u - 1, pk.n) * sk.mu, pk.n)]

\* addEncrypted with the product reduced modulo n instead of n^2
addEncryptedModN(em1, em2, pk) == JsMod(em1 * em2, pk.n)

\* addEncrypted
addEncrypted(em1, em2, pk) == JsMod(em1 * em2, pk.nSquared)

\* addScalar with the scalar multiplied in instead of g^k
addScalarNoPow(em, kv, pk) == JsMod(em * kv, pk.nSquared)

\* addScalar
addScalar(em, kv, pk) == JsMod(em * modPow(pk.g, kv, pk.nSquared), pk.nSquared)

\* mulScalar with the power reduced modulo n instead of n^2
mulScalarModN(em, kv, pk) == modPow(em, kv, pk.n)

\* mulScalar
mulScalar(em, kv, pk) == modPow(em, kv, pk.nSquared)

\* hashMod = bigInt(2).pow(256), at the width of the model's hash
hashMod == Pow2(HashBits)

\* Array.prototype.reduce((prev, cur) => prev.add(cur)) without an initial
\* value: unassigned slots are skipped, and an array without any assigned
\* slot raises a TypeError
Present(arr) == {i \in 1..Len(arr) : arr[i] # Hole}

RECURSIVE SumFrom(_, _)
SumFrom(arr, i) ==
    IF i > Len(arr) THEN 0
    ELSE (IF arr[i] = Hole THEN 0 ELSE arr[i]) + SumFrom(arr, i + 1)

reduceAdd(arr) ==
    IF Present(arr) = {} THEN [err |-> "TypeError", v |-> None]
    ELSE [err |-> "none", v |-> SumFrom(arr, 1)]

\* arr[i] of a JavaScript array: undefined past the end and in a hole
At(arr, i) == IF i <= Len(arr) THEN arr[i] ELSE Hole

\* u[i] = c / g^m[i] mod n^2
uOf(cv, mi, pk) ==
    LET gmi == modPow(pk.g, mi, pk.nSquared)
    IN JsMod(cv * modInv(gmi, pk.nSquared), pk.nSquared)

\* the loop of createZkp over the valid messages from index i on: fills the
\* slots of cm and returns it with mk, the last index whose message is m.
\* es[i], zs[i] are the values drawn for e[i], z[i] at an index that needs them.
RECURSIVE zkpLoop(_, _, _, _, _, _, _, _, _, _)
zkpLoop(i, cm, mk, m, cv, validv, pk, omega, es, zs) ==
    IF i > Len(validv) THEN [cm |-> cm, mk |-> mk]
    ELSE LET mi == validv[i]
             ui == uOf(cv, mi, pk)
         IN IF mi # m
            THEN LET ei   == es[i]
                     zi   == zs[i]
                     zin  == modPow(zi, pk.n, pk.nSquared)
                     uiei == modPow(ui, ei, pk.nSquared)
                     ai   == JsMod(zin * modInv(uiei, pk.nSquared), pk.nSquared)
                 IN zkpLoop(i + 1,
                            [a |-> [cm.a EXCEPT ![i] = ai],
                             e |-> [cm.e EXCEPT ![i] = ei],
                             z |-> [cm.z EXCEPT ![i] = zi]],
                            mk, m, cv, validv, pk, omega, es, zs)
            ELSE LET ai == modPow(omega, pk.n, pk.nSquared)
                 IN zkpLoop(i + 1, [cm EXCEPT !.a[i] = ai],
                            i, m, cv, validv, pk, omega, es, zs)

\* createZkp with the test of mk placed after the reduce over e
createZkpLateTest(m, cv, rv, validv, pk, omega, es, zs, challenge) ==
    LET lp   == zkpLoop(1, ZkpCommitment(Len(validv)), 0, m, cv, validv, pk, omega, es, zs)
        mk   == lp.mk
        red  == reduceAdd(lp.cm.e)
        esum == JsMod(red.v, hashMod)
        ek   == positiveMod(challenge - esum, hashMod)
        zk   == JsMod(omega * modPow(rv, ek, pk.n), pk.n)
    IN IF red.err # "none" THEN [err |-> red.err, commitment |-> NoCommitment]
       ELSE IF mk < 1 THEN [err |-> "NotInValidSet", commitment |-> NoCommitment]
       ELSE [err |-> "none",
             commitment |-> [a |-> lp.cm.a,
                             e |-> [lp.cm.e EXCEPT ![mk] = ek],
                             z |-> [lp.cm.z EXCEPT ![mk] = zk]]]

\* createZkp with e[mk] left as the signed remainder of challenge - esum
createZkpSignedMod(m, cv, rv, validv, pk, omega, es, zs, challenge) ==
    LET lp   == zkpLoop(1, ZkpCommitment(Len(validv)), 0, m, cv, validv, pk, omega, es, zs)
        mk   == lp.mk
        red  == reduceAdd(lp.cm.e)
        esum == JsMod(red.v, hashMod)
        ek   == JsMod(challenge - esum, hashMod)
        zk   == JsMod(omega * modPow(rv, ek, pk.n), pk.n)
    IN IF mk < 1 THEN [err |-> "NotInValidSet", commitment |-> NoCommitment]
       ELSE IF red.err # "none" THEN [err |-> red.err, commitment |-> NoCommitment]
       ELSE [err |-> "none",
             commitment |-> [a |-> lp.cm.a,
                             e |-> [lp.cm.e EXCEPT ![mk] = ek],
                             z |-> [lp.cm.z EXCEPT ![mk] = zk]]]

\* createZkp, with the values it draws (omega, es, zs) and challenge, the
\* hash of the array a.  Returns [err, commitment].
createZkp(m, cv, rv, validv, pk, omega, es, zs, challenge) ==
    LET lp   == zkpLoop(1, ZkpCommitment(Len(validv)), 0, m, cv, validv, pk, omega, es, zs)
        mk   == lp.mk
        red  == reduceAdd(lp.cm.e)
        esum == JsMod(red.v, hashMod)
        ek   == positiveMod(challenge - esum, hashMod)
        zk   == JsMod(omega * modPow(rv, ek, pk.n), pk.n)
    IN IF mk < 1 THEN [err |-> "NotInValidSet", commitment |-> NoCommitment]
       ELSE IF red.err # "none" THEN [err |-> red.err, commitment |-> NoCommitment]
       ELSE [err |-> "none",
             commitment |-> [a |-> lp.cm.a,
                             e |-> [lp.cm.e EXCEPT ![mk] = ek],
                             z |-> [lp.cm.z EXCEPT ![mk] = zk]]]

\* the loop of verifyZkp with both sides of the test reduced modulo n
RECURSIVE verifyLoopModN(_, _, _, _, _)
verifyLoopModN(i, cv, validv, cm, pk) ==
    IF i > Len(validv) THEN "true"
    ELSE LET ui == uOf(cv, validv[i], pk)
             zi == At(cm.z, i)
             ai == At(cm.a, i)
             ei == At(cm.e, i)
         IN IF zi = Hole \/ ei = Hole \/ ai = Hole THEN "TypeError"
            ELSE LET zin    == modPow(zi, pk.n, pk.n)
                     uiei   == modPow(ui, ei, pk.n)
                     aiuiei == JsMod(ai * uiei, pk.n)
                 IN IF zin # aiuiei THEN "false"
                    ELSE verifyLoopModN(i + 1, cv, validv, cm, pk)

\* the loop of verifyZkp from index i on: "true", "false", or the error
\* raised by a method call on an undefined slot
RECURSIVE verifyLoop(_, _, _, _, _)
verifyLoop(i, cv, validv, cm, pk) ==
    IF i > Len(validv) THEN "true"
    ELSE LET ui == uOf(cv, validv[i], pk)
             zi == At(cm.z, i)
             ai == At(cm.a, i)
             ei == At(cm.e, i)
         IN IF zi = Hole \/ ei = Hole \/ ai = Hole THEN "TypeError"
            ELSE LET zin    == modPow(zi, pk.n, pk.nSquared)
                     uiei   == modPow(ui, ei, pk.nSquared)
                     aiuiei == JsMod(ai * uiei, pk.nSquared)
                 IN IF zin # aiuiei THEN "false"
                    ELSE verifyLoop(i + 1, cv, validv, cm, pk)

\* verifyZkp, challenger being the hash of commitment.a: "true", "false" or
\* the error raised
verifyZkp(cv, validv, cm, pk, challenger) ==
    IF Len(validv) * 3 # Len(cm.a) + Len(cm.e) + Len(cm.z) THEN "MalformedCommitment"
    ELSE LET red == reduceAdd(cm.e)
         IN IF red.err # "none" THEN red.err
            ELSE IF JsMod(red.v, hashMod) # challenger THEN "false"
            ELSE verifyLoop(1, cv, validv, cm, pk)

----------------------------------------------------------------------------
(* VoteEncoder.  The encoded integers exceed 32 bits, so a non-negative    *)
(* BigInteger is held as the set of the positions of its 1 bits.           *)

\* the bits of a number 0 <= x < 2^31
RECURSIVE bitsFrom(_, _)
bitsFrom(x, pos) ==
    IF x <= 0 THEN {}
    ELSE (IF x % 2 = 1 THEN {pos} ELSE {}) \cup bitsFrom(x \div 2, pos + 1)

bitsOf(x) == bitsFrom(x, 0)

\* BigInteger.plus, for the argument 2^pos: binary addition with carry
RECURSIVE plusBit(_, _)
plusBit(X, pos) == IF pos \in X THEN plusBit(X \ {pos}, pos + 1) ELSE X \cup {pos}

\* BigInteger.shiftLeft, for the receiver 1: 2^k, and 1 >> -k = 0 when k < 0
oneShiftLeft(k) == IF k < 0 THEN {} ELSE {k}

\* BigInteger.shiftRight(k), k >= 0
shiftRight(X, k) == {b - k : b \in {x \in X : x >= k}}

\* the JavaScript expression x << s for x = 1 or x = 2: the shift count is
\* taken modulo 32 and the result is a signed 32-bit integer
shl32(x, s) ==
    LET k == (s % 32) + (IF x = 2 THEN 1 ELSE 0)
    IN IF k <= 30 THEN Pow2(k)
       ELSE IF k = 31 THEN (0 - Pow2(30)) - Pow2(30)
       ELSE 0

\* 2 << (bitsPerChoice - 1) >= Number.MAX_SAFE_INTEGER
exceedsMaxInt(bitsPerChoice) ==
    LET v == shl32(2, bitsPerChoice - 1)
    IN v > 0 /\ bitLength(v) > MaxSafeBits

\* bit b of the number (1 << (bitsPerChoice - 1)) - 1 in two's complement, as
\* BigInteger.and takes it: 2^k - 1 has the bits below k; -2^31 - 1 has every
\* bit but bit 31
maskBit(bitsPerChoice, b) ==
    LET v == shl32(1, bitsPerChoice - 1)
    IN IF v > 0 THEN b < bitLength(v) - 1 ELSE b # 31

\* encoded.shiftRight(shift).and((1 << (bitsPerChoice - 1)) - 1)
answerOf(encoded, shift, bitsPerChoice) ==
    {b \in shiftRight(encoded, shift) : maskBit(bitsPerChoice, b)}

\* encodeSingle with the bins counted in steps of numBins instead of numChoices
encodeSingleBinStep(choice, numChoices, bitsPerChoice, bin, numBins) ==
    IF choice >= numChoices \/ numChoices < 2 THEN [err |-> "BadParameter", v |-> {}]
    ELSE IF numBins > 0 /\ bin >= numBins THEN [err |-> "BadParameter", v |-> {}]
    ELSE IF bitsPerChoice < 2 THEN [err |-> "BadParameter", v |-> {}]
    ELSE IF exceedsMaxInt(bitsPerChoice) THEN [err |-> "BadParameter", v |-> {}]
    ELSE [err |-> "none",
          v |-> oneShiftLeft(bitsPerChoice * (bin * numBins + choice))]

\* encodeSingle with the test of the bin left out
encodeSingleAnyBin(choice, numChoices, bitsPerChoice, bin, numBins) ==
    IF choice >= numChoices \/ numChoices < 2 THEN [err |-> "BadParameter", v |-> {}]
    ELSE IF bitsPerChoice < 2 THEN [err |-> "BadParameter", v |-> {}]
    ELSE IF exceedsMaxInt(bitsPerChoice) THEN [err |-> "BadParameter", v |-> {}]
    ELSE [err |-> "none",
          v |-> oneShiftLeft(bitsPerChoice * (bin * numChoices + choice))]

\* encodeSingle: returns [err, v]
encodeSingle(choice, numChoices, bitsPerChoice, bin, numBins) ==
    IF choice >= numChoices \/ numChoices < 2 THEN [err |-> "BadParameter", v |-> {}]
    ELSE IF numBins > 0 /\ bin >= numBins THEN [err |-> "BadParameter", v |-> {}]
    ELSE IF bitsPerChoice < 2 THEN [err |-> "BadParameter", v |-> {}]
    ELSE IF exceedsMaxInt(bitsPerChoice) THEN [err |-> "BadParameter", v |-> {}]
    ELSE [err |-> "none",
          v |-> oneShiftLeft(bitsPerChoice * (bin * numChoices + choice))]

\* BigInteger.plus of two numbers that are not negative
RECURSIVE plus(_, _)
plus(X, Y) ==
    IF Y = {} THEN X
    ELSE LET b == CHOOSE y \in Y : TRUE
         IN plus(plusBit(X, b), Y \ {b})

\* the loop of encodeMultiple from the i-th choice on: the first choice that
\* encodeSingle refuses ends it with that error
RECURSIVE encodeMultipleFrom(_, _, _, _, _, _, _)
encodeMultipleFrom(i, result, choices, numChoices, bitsPerChoice, bin, numBins) ==
    IF i > Len(choices) THEN [err |-> "none", v |-> result]
    ELSE LET enc == encodeSingle(choices[i], numChoices, bitsPerChoice, bin, numBins)
         IN IF enc.err # "none" THEN [err |-> enc.err, v |-> {}]
            ELSE encodeMultipleFrom(i + 1, plus(result, enc.v), choices,
                                    numChoices, bitsPerChoice, bin, numBins)

\* encodeMultiple: returns [err, v]
encodeMultiple(choices, numChoices, bitsPerChoice, bin, numBins) ==
    encodeMultipleFrom(1, {}, choices, numChoices, bitsPerChoice, bin, numBins)

\* decodeGroups: returns [err, v], v[bin + 1][choice + 1] being result[bin][choice]
decodeGroups(encoded, numChoices, bitsPerChoice, numBins) ==
    IF exceedsMaxInt(bitsPerChoice) THEN [err |-> "BadParameter", v |-> <<>>]
    ELSE [err |-> "none",
          v |-> [bin \in 1..numBins |->
                   [choice \in 1..numChoices |->
                      answerOf(encoded,
                               ((choice - 1) + (bin - 1) * numChoices) * bitsPerChoice,
                               bitsPerChoice)]]]

\* decode: returns [err, v], v[choice + 1] being result[choice]
decode(encoded, numChoices, bitsPerChoice) ==
    IF exceedsMaxInt(bitsPerChoice) THEN [err |-> "BadParameter", v |-> <<>>]
    ELSE [err |-> "none",
          v |-> [choice \in 1..numChoices |->
                   answerOf(encoded, (choice - 1) * bitsPerChoice, bitsPerChoice)]]

\* getTotalVotesBits
getTotalVotesBits(numChoices, numBins, bitsPerChoice) ==
    IF numChoices <= 0 \/ bitsPerChoice <= 0 THEN 0
    ELSE numChoices * (IF numBins <= 0 THEN 1 ELSE numBins) * bitsPerChoice

\* the for loop of getSingleChoicePermutations over the choices of one bin,
\* from choice on: the votes are pushed onto lst; an error of encodeSingle
\* ends the call
RECURSIVE permutationsOfBin(_, _, _, _, _, _)
permutationsOfBin(choice, lst, numChoices, bitsPerChoice, bin, numBins) ==
    IF choice >= numChoices THEN [err |-> "none", v |-> lst]
    ELSE LET vote == encodeSingle(choice, numChoices, bitsPerChoice, bin, numBins)
         IN IF vote.err # "none" THEN [err |-> vote.err, v |-> <<>>]
            ELSE permutationsOfBin(choice + 1, Append(lst, vote.v), numChoices,
                                   bitsPerChoice, bin, numBins)

\* the loop over the bins with its test before the body: while (bin < numBins)
RECURSIVE permutationsFromWhile(_, _, _, _, _)
permutationsFromWhile(bin, lst, numChoices, bitsPerChoice, numBins) ==
    IF bin >= numBins THEN [err |-> "none", v |-> lst]
    ELSE LET body == permutationsOfBin(0, lst, numChoices, bitsPerChoice, bin, numBins)
         IN IF body.err # "none" THEN body
            ELSE permutationsFromWhile(bin + 1, body.v, numChoices, bitsPerChoice, numBins)

\* the loop over the bins from bin on: do { ... } while (++bin < numBins),
\* the body runs before the test
RECURSIVE permutationsFrom(_, _, _, _, _)
permutationsFrom(bin, lst, numChoices, bitsPerChoice, numBins) ==
    LET body == permutationsOfBin(0, lst, numChoices, bitsPerChoice, bin, numBins)
    IN IF body.err # "none" THEN body
       ELSE IF bin + 1 < numBins
       THEN permutationsFrom(bin + 1, body.v, numChoices, bitsPerChoice, numBins)
       ELSE body

\* getSingleChoicePermutations: returns [err, v], v[i + 1] being list[i]
getSingleChoicePermutations(numChoices, bitsPerChoice, numBins) ==
    IF numChoices < 2 THEN [err |-> "BadParameter", v |-> <<>>]
    ELSE permutationsFrom(0, <<>>, numChoices, bitsPerChoice, numBins)

----------------------------------------------------------------------------
(* Paillier: signature *)

\* createSignature with s1 left without the factor mu
createSignatureNoMu(h, pk, sk) ==
    LET s1Num == JsDiv(modPow(h, sk.lambda, pk.nSquared) - 1, pk.n)
        s1    == JsMod(s1Num, pk.n)
        invN  == modInv(pk.n, sk.lambda)
        test  == modPow(pk.g, s1, pk.n)
        invG  == modInv(test, pk.n)
        s2    == modPow(h * invG, invN, pk.n)
    IN IF ~CanInvert(pk.n, sk.lambda) \/ ~CanInvert(test, pk.n)
       THEN [err |-> "NotCoprime", sig |-> NoSig]
       ELSE [err |-> "none", sig |-> Signature(s1, s2)]

\* createSignature, h being bigIntHashFromBigInt(m)
createSignature(h, pk, sk) ==
    LET s1Num == JsDiv(modPow(h, sk.lambda, pk.nSquared) - 1, pk.n)
        s1Den == sk.mu
        s1    == JsMod(s1Num * s1Den, pk.n)
        invN  == modInv(pk.n, sk.lambda)
        test  == modPow(pk.g, s1, pk.n)
        invG  == modInv(test, pk.n)
        s2    == modPow(h * invG, invN, pk.n)
    IN IF ~CanInvert(pk.n, sk.lambda) \/ ~CanInvert(test, pk.n)
       THEN [err |-> "NotCoprime", sig |-> NoSig]
       ELSE [err |-> "none", sig |-> Signature(s1, s2)]

\* verifySignature with the comparison made modulo n
verifySignatureModN(h, sg, pk) ==
    LET gs1 == modPow(pk.g, sg.s1, pk.nSquared)
        s2n == modPow(sg.s2, pk.n, pk.nSquared)
        hm  == JsMod(gs1 * s2n, pk.nSquared)
    IN JsMod(hm, pk.n) = JsMod(h, pk.n)

\* verifySignature, h being bigIntHashFromBigInt(m)
verifySignature(h, sg, pk) ==
    LET gs1 == modPow(pk.g, sg.s1, pk.nSquared)
        s2n == modPow(sg.s2, pk.n, pk.nSquared)
        hm  == JsMod(gs1 * s2n, pk.nSquared)
    IN hm = h

----------------------------------------------------------------------------
(* The caller *)

Init ==
    /\ pc = "init"
    /\ pub = NoKey
    /\ priv = NoPriv
    /\ c = None
    /\ r = None
    /\ sum = 0
    /\ added = 0
    /\ d = None
    /\ err = "none"
    /\ hashOf = [m \in Messages |-> None]
    /\ sig = NoSig
    /\ vmsg = None
    /\ verified = "none"
    /\ valid = <<>>
    /\ commitment = NoCommitment
    /\ hashA = NoHash
    /\ vc = NoCipher
    /\ vcomm = NoCommitment
    /\ ballot = NoBallot
    /\ votes = <<>>
    /\ plain = {}
    /\ decoded = <<>>
    /\ args = NoArgs
    /\ scalar = None
    /\ kg = NoKeyGen
    /\ list = <<>>
    /\ total = None

\* generateKeyPair(bits) for a size out of sizes, with the primes of the last
\* pass of its loops
GenerateKeyPairOf(sizes) ==
    /\ pc = "init"
    /\ \E bits \in sizes :
         IF keySizeRejected(bits)
         THEN /\ kg' = [bits |-> bits, primes |-> {}]
              /\ err' = "BadParameter"
              /\ pc' = "failed"
              /\ UNCHANGED <<pub, priv>>
         ELSE \E p \in generateRandomPrime(modelBits(bits) \div 2),
                 q \in generateRandomPrime(modelBits(bits) \div 2) :
                /\ keyLoopExits(p, q, modelBits(bits))
                /\ kg' = [bits |-> bits, primes |-> {p, q}]
                /\ pub' = keyPairOf(p, q)[1]
                /\ priv' = keyPairOf(p, q)[2]
                /\ err' = err
                /\ pc' = "keyed"
    /\ UNCHANGED <<scalar, c, r, sum, added, d, hashOf, sig, vmsg, verified, proofVars, tallyVars>>

\* generateKeyPair(bits) as the callers of the library make it
GenerateKeyPair == GenerateKeyPairOf(KeySizes)

\* generateKeyPair(bits) for any size up to MaxKeyBits
RequestKeyPair == GenerateKeyPairOf(KeyRequests)

\* the plaintexts handed to encrypt: all of [0, n) and MaxOut on either side
Plaintexts(n) == (0 - MaxOut)..(n - 1 + MaxOut)

\* c = encrypt(m, pub), for every plaintext and every r encryptWithoutR draws
Encrypt ==
    /\ pc = "keyed"
    /\ \E m \in Plaintexts(pub.n), rv \in drawR(pub) :
         LET res == encryptWithR(m, pub, rv)
         IN /\ err' = res.err
            /\ c' = res.c
            /\ r' = res.r
            /\ sum' = m
            /\ pc' = IF res.err = "none" THEN "encrypted" ELSE "failed"
    /\ UNCHANGED <<scalar, kg, pub, priv, added, d, hashOf, sig, vmsg, verified, proofVars, tallyVars>>

\* encryptedSum = encrypt(0, pub): the accumulator a tally starts from
EncryptZero ==
    /\ pc = "keyed"
    /\ \E rv \in Pick(drawR(pub), MaxR) :
         LET res == encryptWithR(0, pub, rv)
         IN /\ err' = res.err
            /\ c' = res.c
            /\ r' = res.r
    /\ sum' = 0
    /\ pc' = "summing"
    /\ UNCHANGED <<scalar, kg, pub, priv, added, d, hashOf, sig, vmsg, verified, proofVars, tallyVars>>

\* the positions of a caller that holds an accumulator
Accumulating == {"summing", "shifted", "scaled"}

\* encryptedSum = addEncrypted(encryptedSum, encrypt(m, pub), pub)
AddEncrypted ==
    /\ pc \in Accumulating
    /\ added < MaxAdds
    /\ \E m \in Ends(0..(pub.n - 1), MaxPlain), rv \in Pick(drawR(pub), MaxR) :
         LET res == encryptWithR(m, pub, rv)
         IN /\ c' = addEncrypted(c, res.c, pub)
            /\ sum' = sum + m
    /\ added' = added + 1
    /\ scalar' = None
    /\ pc' = "summing"
    /\ UNCHANGED <<kg, pub, priv, r, d, err, hashOf, sig, vmsg, verified, proofVars, tallyVars>>

\* the scalars handed to addScalar and mulScalar: the smallest, and one
\* beyond n
Scalars(n) == Pick(0..(n + MaxOut), MaxPlain)

\* encryptedSum = addScalar(encryptedSum, k, pub)
AddScalar ==
    /\ pc \in Accumulating
    /\ added < MaxAdds
    /\ \E kv \in Scalars(pub.n) :
         /\ c' = addScalar(c, kv, pub)
         /\ sum' = (sum + kv) % pub.n
         /\ scalar' = kv
    /\ added' = added + 1
    /\ pc' = "shifted"
    /\ UNCHANGED <<kg, pub, priv, r, d, err, hashOf, sig, vmsg, verified, proofVars, tallyVars>>

\* encryptedSum = mulScalar(encryptedSum, k, pub)
MulScalar ==
    /\ pc \in Accumulating
    /\ added < MaxAdds
    /\ \E kv \in Scalars(pub.n) :
         /\ c' = mulScalar(c, kv, pub)
         /\ sum' = (sum * kv) % pub.n
         /\ scalar' = kv
    /\ added' = added + 1
    /\ pc' = "scaled"
    /\ UNCHANGED <<kg, pub, priv, r, d, err, hashOf, sig, vmsg, verified, proofVars, tallyVars>>

\* d = decrypt(c, pub, priv)
Decrypt ==
    /\ pc \in {"encrypted"} \cup Accumulating
    /\ LET res == decrypt(c, pub, priv)
       IN /\ err' = res.err
          /\ d' = res.m
    /\ pc' = "decrypted"
    /\ UNCHANGED <<scalar, kg, pub, priv, c, r, sum, added, hashOf, sig, vmsg, verified, proofVars, tallyVars>>

\* the values handed to decrypt that no operation of the library returned:
\* MaxOut on either side of n^2
Received(n) == (n * n - MaxOut)..(n * n + MaxOut - 1)

\* d = decrypt(c, pub, priv) for a value c received from elsewhere
DecryptReceived ==
    /\ pc = "keyed"
    /\ \E cv \in Received(pub.n) :
         LET res == decrypt(cv, pub, priv)
         IN /\ c' = cv
            /\ err' = res.err
            /\ d' = res.m
    /\ pc' = "decrypted"
    /\ UNCHANGED <<scalar, kg, pub, priv, r, sum, added, hashOf, sig, vmsg, verified, proofVars, tallyVars>>

\* the hash of message m: the value on record, or any value on first use
hashDraws(m) == IF hashOf[m] = None THEN HashValues ELSE {hashOf[m]}

\* sig = createSignature(m, pub, priv)
CreateSignature ==
    /\ pc = "keyed"
    /\ \E m \in Messages : \E h \in hashDraws(m) :
         LET res == createSignature(h, pub, priv)
         IN /\ hashOf' = [hashOf EXCEPT ![m] = h]
            /\ sum' = m
            /\ err' = res.err
            /\ sig' = res.sig
            /\ pc' = IF res.err = "none" THEN "signed" ELSE "failed"
    /\ UNCHANGED <<scalar, kg, pub, priv, c, r, added, d, vmsg, verified, proofVars, tallyVars>>

\* verified = verifySignature(m, sig, pub), for the signed message or another
VerifySignature ==
    /\ pc = "signed"
    /\ \E m \in Messages : \E h \in hashDraws(m) :
         /\ hashOf' = [hashOf EXCEPT ![m] = h]
         /\ vmsg' = m
         /\ verified' = IF verifySignature(h, sig, pub) THEN "true" ELSE "false"
    /\ err' = "none"
    /\ pc' = "sigchecked"
    /\ UNCHANGED <<scalar, kg, pub, priv, c, r, sum, added, d, sig, proofVars, tallyVars>>

\* the valid lists handed to encryptWithZkp: <<1, ..., k>> for every
\* k <= MaxValid, the empty list included, and a list that repeats a message
validList(k) == [i \in 1..k |-> i]

ValidLists == {validList(k) : k \in 0..MaxValid} \cup {<<1, 2, 1>>}

\* the draws of createZkp for the list validv and the message m: one value
\* per index that differs from m, none (0) where the loop draws nothing
drawsFor(validv, m, S) ==
    {f \in [1..Len(validv) -> S \cup {0}] :
        \A i \in 1..Len(validv) : IF validv[i] = m THEN f[i] = 0 ELSE f[i] \in S}

\* [c, commitment] = encryptWithZkp(m, valid, pub)
EncryptWithZkp ==
    /\ pc = "keyed"
    /\ LET Rs == Pick(drawR(pub), MaxR)
           Ws == Pick(drawR(pub), MaxZ)
           Es == Pick(generateRandom(bitLength(pub.n) \div 2 - 1), MaxE)
           Zs == Pick(generateCoprime(pub.n, bitLength(pub.n) - 1), MaxZ)
           Hs == Pick(HashValues, MaxH)
       IN
       \E vl \in ValidLists, m \in 1..(MaxValid + 1) \cup {pub.n} :
       \E rv \in Rs, omega \in Ws :
       \E es \in drawsFor(vl, m, Es) :
       \E zs \in drawsFor(vl, m, Zs) :
       \E h \in Hs :
         LET enc == encryptWithR(m, pub, rv)
             res == createZkp(m, enc.c, enc.r, vl, pub, omega, es, zs, h)
             ok  == enc.err = "none" /\ res.err = "none"
         IN /\ valid' = vl
            /\ sum' = m
            /\ err' = IF enc.err # "none" THEN enc.err ELSE res.err
            /\ c' = IF ok THEN enc.c ELSE None
            /\ r' = IF ok THEN enc.r ELSE None
            /\ commitment' = res.commitment
            /\ hashA' = IF ok THEN [a |-> res.commitment.a, h |-> h] ELSE NoHash
            /\ vc' = IF ok THEN [m |-> m, r |-> enc.r, c |-> enc.c] ELSE NoCipher
            /\ vcomm' = res.commitment
            /\ pc' = IF ok THEN "proved" ELSE "failed"
    /\ UNCHANGED <<scalar, kg, pub, priv, added, d, hashOf, sig, vmsg, verified, tallyVars>>

\* cheatC = encrypt(m2, pub): a ciphertext from a separate call, to be
\* checked against the commitment in hand
EncryptOther ==
    /\ pc = "proved"
    /\ \E m2 \in 1..(MaxValid + 1), rv \in Pick(drawR(pub), MaxR) :
         LET enc == encryptWithR(m2, pub, rv)
         IN /\ enc.err = "none"
            /\ enc.c # c
            /\ vc' = [m |-> m2, r |-> enc.r, c |-> enc.c]
    /\ pc' = "swapped"
    /\ UNCHANGED <<scalar, kg, pub, priv, c, r, sum, added, d, err, hashOf, sig, vmsg, verified,
                   valid, commitment, hashA, vcomm, tallyVars>>

\* the first len elements of arr, padded with 1 if arr is shorter
Resized(arr, len) == [i \in 1..len |-> IF i <= Len(arr) THEN arr[i] ELSE 1]

\* a commitment whose arrays do not all have the length of the valid list,
\* as ZkpCommitment.create(a, e, z) builds it from three arrays
CreateCommitment ==
    /\ pc = "proved"
    /\ \E la, le, lz \in (Len(valid) - 1)..(Len(valid) + 1) :
         /\ <<la, le, lz>> # <<Len(valid), Len(valid), Len(valid)>>
         /\ vcomm' = [a |-> Resized(commitment.a, la),
                      e |-> Resized(commitment.e, le),
                      z |-> Resized(commitment.z, lz)]
    /\ pc' = "reshaped"
    /\ UNCHANGED <<scalar, kg, pub, priv, c, r, sum, added, d, err, hashOf, sig, vmsg, verified,
                   valid, commitment, hashA, vc, tallyVars>>

\* verified = verifyZkp(vc.c, valid, vcomm, pub)
VerifyZkp ==
    /\ pc \in {"proved", "swapped", "reshaped"}
    /\ \E h \in (IF vcomm.a = hashA.a THEN {hashA.h} ELSE Pick(HashValues, MaxH)) :
         LET res == verifyZkp(vc.c, valid, vcomm, pub, h)
         IN /\ verified' = IF res \in {"true", "false"} THEN res ELSE "none"
            /\ err' = IF res \in {"true", "false"} THEN "none" ELSE res
    /\ pc' = "zkpchecked"
    /\ UNCHANGED <<scalar, kg, pub, priv, c, r, sum, added, d, hashOf, sig, vmsg, proofVars, tallyVars>>

\* number of bins the votes fall into: max(numBins, 1)
binsOf(b) == IF b.numBins <= 0 THEN 1 ELSE b.numBins

\* the organizer fixes the parameters of a vote and generates a key of the
\* given size; encryptedSum = encrypt(0, pub)
OpenVote ==
    /\ pc = "init"
    /\ \E nc \in 2..MaxChoices, bpc \in BitsPerChoice, nb \in 0..MaxBins,
          bits \in TallyKeySizes :
         /\ ballot' = [numChoices |-> nc, bitsPerChoice |-> bpc, numBins |-> nb,
                       bits |-> bits]
         /\ votes' = [bin \in 1..(IF nb <= 0 THEN 1 ELSE nb) |-> [ch \in 1..nc |-> 0]]
    /\ plain' = {}
    /\ pc' = "open"
    /\ UNCHANGED <<args, scalar, kg, pub, priv, c, r, sum, added, d, err, hashOf, sig, vmsg, verified,
                   proofVars, decoded, listVars>>

\* a voter encodes a choice; the aggregator adds its encryption to
\* encryptedSum, whose plaintext becomes plain + encodeSingle(...)
CastVote ==
    /\ pc = "open"
    /\ added < MaxVotes
    /\ \E choice \in 0..(ballot.numChoices - 1), bin \in 0..(binsOf(ballot) - 1) :
         LET enc == encodeSingle(choice, ballot.numChoices, ballot.bitsPerChoice,
                                 bin, ballot.numBins)
         IN /\ enc.err = "none"
            /\ plain' = UNION {plusBit(plain, b) : b \in enc.v}
            /\ votes' = [votes EXCEPT ![bin + 1][choice + 1] = @ + 1]
    /\ added' = added + 1
    /\ UNCHANGED <<args, scalar, kg, pc, pub, priv, c, r, sum, d, err, hashOf, sig, vmsg, verified,
                   proofVars, ballot, decoded, listVars>>

\* the organizer decrypts encryptedSum and decodes it.  The decrypted value
\* is the sum of the plaintexts as long as that sum is below 2^(bits-1) <= n.
Tally ==
    /\ pc = "open"
    /\ \A b \in plain : b < ballot.bits - 1
    /\ LET res == IF ballot.numBins = 0
                  THEN decode(plain, ballot.numChoices, ballot.bitsPerChoice)
                  ELSE decodeGroups(plain, ballot.numChoices, ballot.bitsPerChoice,
                                    ballot.numBins)
       IN /\ err' = res.err
          /\ decoded' = IF ballot.numBins = 0 THEN <<res.v>> ELSE res.v
    /\ pc' = "tallied"
    /\ UNCHANGED <<args, scalar, kg, pub, priv, c, r, sum, added, d, hashOf, sig, vmsg, verified,
                   proofVars, ballot, votes, plain, listVars>>

\* the values of bitsPerChoice handed to the encoder: those of a vote, one
\* below the least admitted and one above the width of a safe integer
EncodeBits == BitsPerChoice \cup {1, MaxSafeBits + 1}

\* the lists of at most len choices out of S
RECURSIVE ChoiceLists(_, _)
ChoiceLists(S, len) ==
    IF len <= 0 THEN {<<>>}
    ELSE LET shorter == ChoiceLists(S, len - 1)
         IN shorter \cup {Append(l, ch) : l \in shorter, ch \in S}

\* plain = encodeSingle(choice, numChoices, bitsPerChoice, bin, numBins)
EncodeSingle ==
    /\ pc = "init"
    /\ \E choice \in (0 - MaxOut)..MaxChoices, nc \in 1..MaxChoices,
          bpc \in EncodeBits, bin \in 0..MaxBins, nb \in 0..MaxBins :
         LET enc == encodeSingle(choice, nc, bpc, bin, nb)
         IN /\ ballot' = [numChoices |-> nc, bitsPerChoice |-> bpc, numBins |-> nb,
                          bits |-> 0]
            /\ args' = [op |-> "encodeSingle", choices |-> <<choice>>, bin |-> bin]
            /\ err' = enc.err
            /\ plain' = enc.v
            /\ pc' = IF enc.err = "none" THEN "encoded" ELSE "failed"
    /\ UNCHANGED <<scalar, kg, pub, priv, c, r, sum, added, d, hashOf, sig, vmsg, verified,
                   proofVars, votes, decoded, listVars>>

\* plain = encodeMultiple(choices, numChoices, bitsPerChoice, bin, numBins)
EncodeMultiple ==
    /\ pc = "init"
    /\ \E choices \in ChoiceLists(0..MaxChoices, MaxVotes), nc \in 1..MaxChoices,
          bpc \in EncodeBits, bin \in 0..MaxBins, nb \in 0..MaxBins :
         LET enc == encodeMultiple(choices, nc, bpc, bin, nb)
         IN /\ ballot' = [numChoices |-> nc, bitsPerChoice |-> bpc, numBins |-> nb,
                          bits |-> 0]
            /\ args' = [op |-> "encodeMultiple", choices |-> choices, bin |-> bin]
            /\ err' = enc.err
            /\ plain' = enc.v
            /\ pc' = IF enc.err = "none" THEN "encoded" ELSE "failed"
    /\ UNCHANGED <<scalar, kg, pub, priv, c, r, sum, added, d, hashOf, sig, vmsg, verified,
                   proofVars, votes, decoded, listVars>>

\* decoded = decode(plain, ...) for a vote without bins, and
\* decoded = decodeGroups(plain, ...) for a vote with bins
Decode ==
    /\ pc = "encoded"
    /\ LET res == IF ballot.numBins = 0
                  THEN decode(plain, ballot.numChoices, ballot.bitsPerChoice)
                  ELSE decodeGroups(plain, ballot.numChoices, ballot.bitsPerChoice,
                                    ballot.numBins)
       IN /\ err' = res.err
          /\ decoded' = IF ballot.numBins = 0 THEN <<res.v>> ELSE res.v
    /\ pc' = "decoded"
    /\ UNCHANGED <<args, scalar, kg, pub, priv, c, r, sum, added, d, hashOf, sig, vmsg, verified,
                   proofVars, ballot, votes, plain, listVars>>

\* the number whose 1 bits are X, for bits below 31
RECURSIVE valueOf(_)
valueOf(X) ==
    IF X = {} THEN 0
    ELSE LET b == CHOOSE x \in X : TRUE
         IN Pow2(b) + valueOf(X \ {b})

\* the numbers of bins handed to the codec: 0 for a vote without bins, and
\* numbers below 0
BinCounts == (0 - MaxOut)..MaxBins

\* total = getTotalVotesBits(numChoices, numBins, bitsPerChoice)
GetTotalVotesBits ==
    /\ pc = "init"
    /\ \E nc \in (0 - MaxOut)..MaxChoices, nb \in BinCounts,
          bpc \in EncodeBits \cup ((0 - MaxOut)..0) :
         /\ ballot' = [numChoices |-> nc, bitsPerChoice |-> bpc, numBins |-> nb,
                       bits |-> 0]
         /\ total' = getTotalVotesBits(nc, nb, bpc)
    /\ args' = [op |-> "getTotalVotesBits", choices |-> <<>>, bin |-> 0]
    /\ pc' = "sized"
    /\ UNCHANGED <<scalar, kg, pub, priv, c, r, sum, added, d, err, hashOf, sig, vmsg, verified,
                   proofVars, votes, plain, decoded, list>>

\* list = getSingleChoicePermutations(numChoices, bitsPerChoice, numBins),
\* by the holder of a public key
GetSingleChoicePermutations ==
    /\ pc = "keyed"
    /\ \E nc \in 1..MaxChoices, bpc \in EncodeBits, nb \in BinCounts :
         LET res == getSingleChoicePermutations(nc, bpc, nb)
         IN /\ ballot' = [numChoices |-> nc, bitsPerChoice |-> bpc, numBins |-> nb,
                          bits |-> 0]
            /\ list' = res.v
            /\ err' = res.err
            /\ pc' = IF res.err = "none" THEN "listed" ELSE "failed"
    /\ args' = [op |-> "getSingleChoicePermutations", choices |-> <<>>, bin |-> 0]
    /\ UNCHANGED <<scalar, kg, pub, priv, c, r, sum, added, d, hashOf, sig, vmsg, verified,
                   proofVars, votes, plain, decoded, total>>

\* plain = encodeSingle(choice, ...) with the parameters the list was made for
EncodeVote ==
    /\ pc = "listed"
    /\ \E choice \in (0 - MaxOut)..MaxChoices, bin \in (0 - MaxOut)..MaxBins :
         LET enc == encodeSingle(choice, ballot.numChoices, ballot.bitsPerChoice,
                                 bin, ballot.numBins)
         IN /\ args' = [op |-> "encodeSingle", choices |-> <<choice>>, bin |-> bin]
            /\ err' = enc.err
            /\ plain' = enc.v
            /\ pc' = IF enc.err = "none" THEN "encoded" ELSE "failed"
    /\ UNCHANGED <<scalar, kg, pub, priv, c, r, sum, added, d, hashOf, sig, vmsg, verified,
                   proofVars, ballot, votes, decoded, listVars>>

\* the encoded votes that are numbers below 2^31
Narrow(X) == \A b \in X : b <= 30

\* [c, commitment] = encryptWithZkp(plain, list, pub): the vote is encrypted
\* with the list of all votes as the valid set, for lists of at most
\* MaxValid + 1 votes.  Every index that needs a draw gets the same e and
\* the same z.
EncryptVote ==
    /\ pc = "encoded"
    /\ list # <<>>
    /\ Len(list) <= MaxValid + 1
    /\ Narrow(plain)
    /\ \A i \in 1..Len(list) : Narrow(list[i])
    /\ LET vl == [i \in 1..Len(list) |-> valueOf(list[i])]
           m  == valueOf(plain)
       IN
       \E rv \in Lowest(drawR(pub), MaxZ), omega \in Lowest(drawR(pub), MaxZ),
          e \in Lowest(generateRandom(bitLength(pub.n) \div 2 - 1), MaxE),
          z \in Lowest(generateCoprime(pub.n, bitLength(pub.n) - 1), MaxZ),
          h \in Highest(HashValues, MaxH) :
         LET enc == encryptWithR(m, pub, rv)
             res == createZkp(m, enc.c, enc.r, vl, pub, omega,
                              [i \in 1..Len(vl) |-> e], [i \in 1..Len(vl) |-> z], h)
             ok  == enc.err = "none" /\ res.err = "none"
         IN /\ valid' = vl
            /\ sum' = m
            /\ err' = IF enc.err # "none" THEN enc.err ELSE res.err
            /\ c' = IF ok THEN enc.c ELSE None
            /\ r' = IF ok THEN enc.r ELSE None
            /\ commitment' = res.commitment
            /\ hashA' = IF ok THEN [a |-> res.commitment.a, h |-> h] ELSE NoHash
            /\ vc' = IF ok THEN [m |-> m, r |-> enc.r, c |-> enc.c] ELSE NoCipher
            /\ vcomm' = res.commitment
            /\ pc' = IF ok THEN "proved" ELSE "failed"
    /\ args' = [args EXCEPT !.op = "encryptWithZkp"]
    /\ UNCHANGED <<scalar, kg, pub, priv, added, d, hashOf, sig, vmsg, verified,
                   ballot, votes, plain, decoded, listVars>>

Next ==
    \/ GenerateKeyPair
    \/ Encrypt
    \/ EncryptZero
    \/ AddEncrypted
    \/ Decrypt

Spec == Init /\ [][Next]_vars

NextScalar ==
    \/ GenerateKeyPair
    \/ Encrypt
    \/ EncryptZero
    \/ AddEncrypted
    \/ AddScalar
    \/ MulScalar
    \/ Decrypt
    \/ DecryptReceived

SpecScalar == Init /\ [][NextScalar]_vars

NextKey ==
    \/ RequestKeyPair

SpecKey == Init /\ [][NextKey]_vars

NextSig ==
    \/ GenerateKeyPair
    \/ CreateSignature
    \/ VerifySignature

SpecSig == Init /\ [][NextSig]_vars

NextZkp ==
    \/ GenerateKeyPair
    \/ EncryptWithZkp
    \/ EncryptOther
    \/ VerifyZkp

SpecZkp == Init /\ [][NextZkp]_vars

NextCommit ==
    \/ GenerateKeyPair
    \/ EncryptWithZkp
    \/ CreateCommitment
    \/ VerifyZkp

SpecCommit == Init /\ [][NextCommit]_vars

NextTally ==
    \/ OpenVote
    \/ CastVote
    \/ Tally

SpecTally == Init /\ [][NextTally]_vars

NextCodec ==
    \/ EncodeSingle
    \/ EncodeMultiple
    \/ Decode

SpecCodec == Init /\ [][NextCodec]_vars

NextBallot ==
    \/ GenerateKeyPair
    \/ GetTotalVotesBits
    \/ GetSingleChoicePermutations
    \/ EncodeVote
    \/ EncryptVote

SpecBallot == Init /\ [][NextBallot]_vars

----------------------------------------------------------------------------
(* Properties *)

InRange(m) == 0 <= m /\ m < pub.n

\* C1: decrypt(encrypt(m, pub), pub, priv) = m for every generated key pair,
\* every plaintext 0 <= m < n and every masking value r that encrypt can draw.
RoundTrip ==
    (pc = "decrypted" /\ added = 0 /\ InRange(sum)) => (err = "none" /\ d = sum)

RoundTripWitness ==
    pc = "decrypted" /\ added = 0 /\ sum = pub.n - 1 /\ r > 1 /\ d = sum

\* C2: an accumulator that starts as encrypt(0) and takes any sequence of
\* encrypt(m_i) by addEncrypted decrypts, after every step, to the sum of the
\* m_i modulo n, whatever randomness went into the ciphertexts.
AdditiveHomomorphism ==
    /\ pc = "summing" => decrypt(c, pub, priv) = [err |-> "none", m |-> sum % pub.n]
    /\ (pc = "decrypted" /\ added > 0) => (err = "none" /\ d = sum % pub.n)

AdditiveHomomorphismWitness ==
    pc = "decrypted" /\ added >= 2 /\ sum >= pub.n /\ d = sum % pub.n /\ d > 0

\* C3: when numChoices * max(numBins, 1) * bitsPerChoice <= bitLength(n) and
\* every count stays below 2^(bitsPerChoice - 1), decoding the decrypted
\* accumulator yields exactly the count of the votes cast for every choice.
FieldsFit ==
    /\ ballot.numChoices * binsOf(ballot) * ballot.bitsPerChoice <= ballot.bits
    /\ \A bin \in DOMAIN votes : \A ch \in DOMAIN votes[bin] :
          bitLength(votes[bin][ch]) <= ballot.bitsPerChoice - 1

TallyIsHistogram ==
    (pc = "tallied" /\ FieldsFit) =>
        /\ err = "none"
        /\ decoded = [bin \in DOMAIN votes |->
                        [ch \in DOMAIN votes[bin] |-> bitsOf(votes[bin][ch])]]

\* the message m of encryptWithZkp(m, valid, pub) and its place in valid
Proving == pc \notin {"init", "keyed"}
Member == \E i \in 1..Len(valid) : valid[i] = sum
MemberOnce == Cardinality({i \in 1..Len(valid) : valid[i] = sum}) = 1

\* the call verifyZkp(c, valid, commitment, pub) on the values that
\* encryptWithZkp returned / on another ciphertext / on another commitment
CheckedOwn == pc = "zkpchecked" /\ vc.c = c /\ vcomm = commitment
CheckedOther == pc = "zkpchecked" /\ vc.c # c /\ vcomm = commitment

\* C4: for every plaintext m in range and every valid list that contains m,
\* encryptWithZkp returns a commitment that verifyZkp accepts for the
\* returned ciphertext and the same list.
ZkpCompleteness ==
    (Proving /\ InRange(sum) /\ Member) =>
        /\ pc # "failed"
        /\ CheckedOwn => (verified = "true" /\ err = "none")

\* C5: a commitment made for the ciphertext c is rejected, verifyZkp
\* returning false without raising, for every other ciphertext that a
\* separate encrypt call returned.
ZkpBindsCiphertext ==
    CheckedOther => (verified = "false" /\ err = "none")

\* the quotient c2 / c in the group of units modulo n^2
quotient(c2, c1) == JsMod(c2 * modInv(c1, pub.nSquared), pub.nSquared)

\* C5 as amended: for a valid list that holds m once, verifyZkp returns
\* without raising; it returns false unless (c2 / c)^e[i] = 1 modulo n^2 for
\* every challenge e[i] of the commitment, and true in that case.
ZkpOtherCiphertext ==
    (CheckedOther /\ MemberOnce) =>
        /\ err = "none"
        /\ verified \in {"true", "false"}
        /\ verified = "true" <=>
              \A i \in 1..Len(valid) :
                 modPow(quotient(vc.c, c), commitment.e[i], pub.nSquared) = 1

ZkpOtherCiphertextWitness ==
    /\ CheckedOther /\ MemberOnce
    /\ vc.m # sum /\ (\E i \in 1..Len(valid) : valid[i] = vc.m)
    /\ Len(valid) >= 3
    /\ verified = "false"

\* C6: createZkp and encryptWithZkp raise NotInValidSet, and return neither
\* a commitment nor a ciphertext, whenever the plaintext m in range equals no
\* element of the valid list, the empty list included.
ZkpRefusesNonMember ==
    (Proving /\ InRange(sum) /\ ~Member) =>
        /\ pc = "failed"
        /\ err = "NotInValidSet"
        /\ commitment = NoCommitment
        /\ c = None

ZkpRefusesNonMemberWitness ==
    pc = "failed" /\ err = "NotInValidSet" /\ ~Member /\ Len(valid) >= 2

\* C7: verifyZkp fails with MalformedCommitment whenever one of the lengths
\* of a, e, z differs from the length of the valid list, also when the three
\* lengths still add up to three times that length.
VerifierChecksEachLength ==
    (pc = "zkpchecked" /\ \/ Len(vcomm.a) # Len(valid)
                          \/ Len(vcomm.e) # Len(valid)
                          \/ Len(vcomm.z) # Len(valid))
        => err = "MalformedCommitment"

\* C8: verifySignature(m, createSignature(m, pub, priv), pub) = true for
\* every message, whatever the hash of the message is.
SignatureVerifiesAnyHash ==
    (pc = "sigchecked" /\ vmsg = sum) => verified = "true"

\* C8 as amended: the signature of m verifies when the hash of m is 0 or
\* coprime to n.
SignatureVerifies ==
    (pc = "sigchecked" /\ vmsg = sum /\ (hashOf[sum] = 0 \/ gcd(hashOf[sum], pub.n) = 1))
        => verified = "true"

SignatureVerifiesWitness ==
    pc = "sigchecked" /\ vmsg = sum /\ hashOf[sum] > pub.n
        /\ gcd(hashOf[sum], pub.n) = 1 /\ verified = "true"

\* C9: once a signature verifies for its message m, it is rejected, with the
\* result false and no exception, for a message whose hash differs.
SignatureRejectsOtherMessage ==
    (pc = "sigchecked" /\ vmsg # sum /\ hashOf[vmsg] # hashOf[sum]
        /\ verifySignature(hashOf[sum], sig, pub))
        => (verified = "false" /\ err = "none")

SignatureRejectsOtherMessageWitness ==
    pc = "sigchecked" /\ vmsg # sum /\ hashOf[vmsg] # hashOf[sum]
        /\ hashOf[sum] > 1 /\ verifySignature(hashOf[sum], sig, pub)
        /\ verified = "false"

\* C11: decrypt fails with BadCiphertext, returning nothing, for every
\* c >= n^2, and returns a plaintext in [0, n) for every c in [0, n^2) that
\* encrypt, addEncrypted, addScalar or mulScalar returned.
DecryptValidates ==
    pc = "decrypted" =>
        /\ c >= pub.nSquared => (err = "BadCiphertext" /\ d = None)
        /\ (0 <= c /\ c < pub.nSquared) => (err = "none" /\ 0 <= d /\ d < pub.n)

DecryptValidatesWitness ==
    /\ pc = "decrypted" /\ c = pub.nSquared /\ err = "BadCiphertext"

DecryptInRangeWitness ==
    /\ pc = "decrypted" /\ added >= 2 /\ scalar > pub.n
    /\ 0 <= c /\ c < pub.nSquared /\ d > 0 /\ d < pub.n

\* the accumulator decrypts to the plaintext it stands for
DecryptsToSum == decrypt(c, pub, priv) = [err |-> "none", m |-> sum % pub.n]

\* C12: decrypt(addScalar(c, k, pub)) = (m + k) mod n for c a ciphertext of
\* m in [0, n) and every scalar k >= 0, k >= n included, also when addScalar
\* is applied again and again to the same accumulator.
ScalarAddition == pc = "shifted" => DecryptsToSum

ScalarAdditionWitness ==
    /\ pc = "shifted" /\ added >= 2 /\ scalar >= pub.n
    /\ sum > 0 /\ DecryptsToSum

\* C13: decrypt(mulScalar(c, k, pub)) = (m * k) mod n for c a ciphertext of
\* m in [0, n) and every scalar k >= 0, k = 0 included, also when mulScalar
\* is applied again and again to the same accumulator.
ScalarMultiplication == pc = "scaled" => DecryptsToSum

ScalarMultiplicationWitness ==
    /\ pc = "scaled" /\ added >= 2 /\ scalar > pub.n
    /\ sum > 1 /\ DecryptsToSum

ScalarMultiplicationByZeroWitness ==
    /\ pc = "scaled" /\ scalar = 0 /\ c = 1 /\ DecryptsToSum

\* the plaintext handed to encrypt was in [0, n)
EncryptedInRange == pc = "encrypted" => InRange(sum)

\* every value the operations return for plaintexts in [0, n) is in [0, n^2)
CiphertextInRangeOfPlaintexts ==
    (pc \in {"encrypted"} \cup Accumulating /\ EncryptedInRange) =>
        (0 <= c /\ c < pub.nSquared)

\* C14: every value that encrypt, addEncrypted, addScalar or mulScalar
\* returns is a ciphertext: 0 <= c < n^2.
CiphertextInRange ==
    pc \in {"encrypted"} \cup Accumulating => (0 <= c /\ c < pub.nSquared)

\* C15: generateKeyPair(bits) fails with BadParameter, before it has sampled
\* a prime, for every bits < 160 and every bits that is no multiple of 8, and
\* goes on to return a key pair for every other bits.
KeySizeValidated ==
    kg.bits # None =>
        IF kg.bits < 160 \/ kg.bits % 8 # 0
        THEN pc = "failed" /\ err = "BadParameter" /\ kg.primes = {} /\ pub = NoKey
        ELSE pc = "keyed" /\ err = "none" /\ pub # NoKey

KeySizeValidatedWitness ==
    /\ pc = "failed" /\ err = "BadParameter"
    /\ kg.bits > 160 /\ kg.bits % 8 # 0 /\ pub = NoKey

KeySizeAcceptedWitness ==
    pc = "keyed" /\ kg.bits > 160 /\ kg.bits % 8 = 0 /\ pub # NoKey

\* C16: a key pair that generateKeyPair(bits) returns has n = p * q for two
\* different primes of bits / 2 bits each, n of exactly bits bits, g = n + 1
\* and nSquared = n * n.
KeyPairPostcondition ==
    pc = "keyed" =>
        /\ \E p \in kg.primes, q \in kg.primes :
              /\ p # q /\ IsPrime(p) /\ IsPrime(q)
              /\ bitLength(p) = modelBits(kg.bits) \div 2
              /\ bitLength(q) = modelBits(kg.bits) \div 2
              /\ pub.n = p * q
        /\ bitLength(pub.n) = modelBits(kg.bits)
        /\ pub.g = pub.n + 1
        /\ pub.nSquared = pub.n * pub.n

\* a key of the size at which some pairs of primes give an n one bit short
KeyPairPostconditionWitness ==
    /\ pc = "keyed" /\ kg.bits = 176 /\ kg.primes = {17, 31}
    /\ pub.n = 527 /\ pub.g = 528 /\ pub.nSquared = 277729

\* the arguments of the last call of the encoder
Single == args.op = "encodeSingle"
Multiple == args.op = "encodeMultiple"
choiceOf == args.choices[1]

\* number of times choice ch is in the list handed to the encoder
occurrences(ch) == Cardinality({i \in DOMAIN args.choices : args.choices[i] = ch})

\* the parameters admitted for a vote, and a bin that exists
ValidBallot ==
    /\ ballot.numChoices >= 2
    /\ ballot.bitsPerChoice >= 2
    /\ \/ ballot.numBins = 0 /\ args.bin = 0
       \/ 0 <= args.bin /\ args.bin < ballot.numBins

ValidChoice(ch) == 0 <= ch /\ ch < ballot.numChoices

\* the slot of choice ch in the bin of the call
slotOf(ch) == args.bin * ballot.numChoices + ch

\* C17: for 0 <= choice < C, C >= 2, B >= 2 and a bin that exists,
\* encodeSingle(choice, C, B, bin, numBins) = 2^(B * (bin * C + choice)).
EncodeSingleValue ==
    (Single /\ pc \in {"encoded", "failed"} /\ ValidBallot /\ ValidChoice(choiceOf)) =>
        /\ pc = "encoded" /\ err = "none"
        /\ plain = {ballot.bitsPerChoice * slotOf(choiceOf)}
        /\ ballot.bitsPerChoice * slotOf(choiceOf) <= 30 =>
              plain = bitsOf(Pow2(ballot.bitsPerChoice * slotOf(choiceOf)))

\* encodeSingle(1, 2, 8, bin = 1, numBins = 2) = 16777216
EncodeSingleValueWitness ==
    /\ Single /\ pc = "encoded" /\ choiceOf = 1 /\ args.bin = 1
    /\ ballot.numChoices = 2 /\ ballot.bitsPerChoice = 8 /\ ballot.numBins = 2
    /\ plain = bitsOf(16777216)

\* C18: encodeSingle fails with BadParameter and returns nothing when
\* choice >= C, or C < 2, or B < 2, or numBins > 0 and bin >= numBins;
\* encodeMultiple fails the same way when one of its choices is refused.
Refused(ch) ==
    \/ ch >= ballot.numChoices
    \/ ballot.numChoices < 2
    \/ ballot.bitsPerChoice < 2
    \/ ballot.numBins > 0 /\ args.bin >= ballot.numBins

EncodeValidates ==
    (pc \in {"encoded", "failed"} /\ \E i \in DOMAIN args.choices : Refused(args.choices[i])) =>
        (pc = "failed" /\ err = "BadParameter" /\ plain = {})

EncodeValidatesWitness ==
    /\ Single /\ pc = "failed" /\ err = "BadParameter"
    /\ ballot.numChoices >= 2 /\ ballot.bitsPerChoice >= 2 /\ ValidChoice(choiceOf)
    /\ ballot.numBins > 0 /\ args.bin >= ballot.numBins

EncodeMultipleValidatesWitness ==
    /\ Multiple /\ pc = "failed" /\ err = "BadParameter"
    /\ Len(args.choices) >= 2 /\ ~Refused(args.choices[1])

\* the tallies a decoder should return for the list of the call: the count
\* of every choice, in the bin of the call
CountsOfCall ==
    [bin \in 1..binsOf(ballot) |->
       [ch \in 1..ballot.numChoices |->
          IF bin - 1 = args.bin THEN bitsOf(occurrences(ch - 1)) ELSE {}]]

\* C19: for valid arguments decode(encodeSingle(choice, C, B), C, B) is 1 at
\* choice and 0 elsewhere, and decodeGroups of an encodeSingle with bins is
\* 1 at [bin][choice] and 0 elsewhere.
OneHotRoundTrip ==
    (Single /\ pc = "decoded" /\ ValidBallot /\ ValidChoice(choiceOf)) =>
        (err = "none" /\ decoded = CountsOfCall)

\* the round trip at the widths the tests use
OneHotRoundTripBelow32 ==
    (Single /\ pc = "decoded" /\ ValidBallot /\ ValidChoice(choiceOf)
       /\ ballot.bitsPerChoice < 32) =>
        (err = "none" /\ decoded = CountsOfCall)

\* the sum of the encodings of the list, field by field
SumOfCall ==
    UNION {{ballot.bitsPerChoice * slotOf(ch) + b : b \in bitsOf(occurrences(ch))} :
             ch \in 0..(ballot.numChoices - 1)}

AllValid == \A i \in DOMAIN args.choices : ValidChoice(args.choices[i])

\* no count reaches 2^w
CountsBelow(w) == \A ch \in 0..(ballot.numChoices - 1) : bitLength(occurrences(ch)) <= w

\* encodeMultiple returns the sum of encodeSingle over its list, repeated
\* choices adding up and the empty list giving 0
EncodeMultipleSums ==
    (Multiple /\ pc \in {"encoded", "failed"} /\ ValidBallot /\ AllValid
       /\ CountsBelow(ballot.bitsPerChoice)) =>
        (pc = "encoded" /\ err = "none" /\ plain = SumOfCall)

\* C20: encodeMultiple is the sum of encodeSingle over its list, and when
\* every choice is in the list fewer than 2^(B-1) times,
\* decode(encodeMultiple(choices, C, B), C, B)[i] is the number of times i is
\* in the list.
EncodeMultipleTallies ==
    /\ EncodeMultipleSums
    /\ (Multiple /\ pc = "decoded" /\ ValidBallot /\ AllValid
          /\ CountsBelow(ballot.bitsPerChoice - 1)) =>
           (err = "none" /\ decoded = CountsOfCall)

\* the call getSingleChoicePermutations returned, and the calls that follow it
Listed == pc = "listed" \/ args.op \in {"encodeSingle", "encryptWithZkp"}
Voted == args.op \in {"encodeSingle", "encryptWithZkp"}

\* C21: getSingleChoicePermutations(C, B, numBins) returns C * max(numBins, 1)
\* values that differ from one another, encodeSingle(choice, C, B, bin,
\* numBins) for every bin and every choice, bin by bin and in the order of
\* the choices; every value encodeSingle returns for a valid choice and bin
\* is in the list, and encryptWithZkp does not raise NotInValidSet for it.
PermutationsComplete ==
    Listed =>
        LET C    == ballot.numChoices
            bins == binsOf(ballot)
        IN /\ Len(list) = C * bins
           /\ \A i, j \in 1..Len(list) : i # j => list[i] # list[j]
           /\ \A bin \in 0..(bins - 1), choice \in 0..(C - 1) :
                 LET vote == encodeSingle(choice, C, ballot.bitsPerChoice, bin,
                                         ballot.numBins)
                 IN /\ vote.err = "none"
                    /\ bin * C + choice + 1 \in DOMAIN list
                    /\ list[bin * C + choice + 1] = vote.v
           /\ (Voted /\ ValidBallot /\ ValidChoice(choiceOf)) =>
                 /\ \E i \in 1..Len(list) : list[i] = plain
                 /\ err # "NotInValidSet"
                 /\ args.op = "encryptWithZkp" =>
                       (\E i \in 1..Len(valid) : valid[i] = sum)

\* getSingleChoicePermutations(2, 2, 2) = [1, 4, 16, 64] and the vote 64 of
\* choice 1 in bin 1 is encrypted with its proof
PermutationsCompleteWitness ==
    /\ pc = "proved" /\ args.op = "encryptWithZkp"
    /\ ballot.numChoices = 2 /\ ballot.bitsPerChoice = 2 /\ ballot.numBins = 2
    /\ choiceOf = 1 /\ args.bin = 1
    /\ valid = <<1, 4, 16, 64>> /\ sum = 64
    /\ Len(commitment.a) = 4

\* a vote without bins has its C values in the list
PermutationsWithoutBinsWitness ==
    /\ pc = "listed" /\ ballot.numChoices = 3 /\ ballot.numBins = 0
    /\ ballot.bitsPerChoice = 32
    /\ list = <<{0}, {32}, {64}>>

\* the product C * max(numBins, 1) * B of the parameters of the call
AreaBits == ballot.numChoices * binsOf(ballot) * ballot.bitsPerChoice

\* getTotalVotesBits is the product when numChoices and bitsPerChoice are
\* positive, numBins <= 0 counting as one bin, and 0 otherwise
TotalVotesBitsOfFields ==
    pc = "sized" =>
        total = IF ballot.numChoices > 0 /\ ballot.bitsPerChoice > 0
                THEN AreaBits ELSE 0

\* C22: getTotalVotesBits(C, numBins, B) = C * max(numBins, 1) * B when C,
\* numBins and B are all positive, and 0 when one of the three is not.
TotalVotesBits ==
    pc = "sized" =>
        total = IF ballot.numChoices > 0 /\ ballot.numBins > 0 /\ ballot.bitsPerChoice > 0
                THEN AreaBits ELSE 0

\* an encodeSingle that returned
Encoded == args.op = "encodeSingle" /\ pc = "encoded"

\* the value is one set bit at a slot of the ballot
InArea ==
    \E j \in 0..(ballot.numChoices * binsOf(ballot) - 1) :
       /\ plain = {ballot.bitsPerChoice * j}
       /\ ballot.bitsPerChoice * j
             < getTotalVotesBits(ballot.numChoices, ballot.numBins, ballot.bitsPerChoice)

\* encodeSingle stays in the area for a choice that is not negative and a
\* bin that exists
EncodeSingleInAreaOfValid ==
    (Encoded /\ ValidBallot /\ ValidChoice(choiceOf)) => InArea

\* C27: whatever its arguments, a value encodeSingle returns is 2^(B * j)
\* for a slot j with 0 <= j < C * max(numBins, 1): one set bit below
\* getTotalVotesBits(C, numBins, B).
EncodeSingleInArea == Encoded => InArea

\* C23: for a valid list of the one element m, encryptWithZkp returns a
\* commitment with one a, one e and one z, where e[0] is the hash of the
\* array a and z[0] = omega * r^e[0] mod n for the omega that a[0] = omega^n
\* was made of, and verifyZkp accepts that commitment.
ZkpSingleton ==
    (Proving /\ InRange(sum) /\ valid = <<sum>>) =>
        /\ pc # "failed"
        /\ Len(commitment.a) = 1 /\ Len(commitment.e) = 1 /\ Len(commitment.z) = 1
        /\ commitment.e[1] = hashA.h
        /\ \E omega \in drawR(pub) :
              /\ commitment.a[1] = modPow(omega, pub.n, pub.nSquared)
              /\ commitment.z[1] = JsMod(omega * modPow(r, commitment.e[1], pub.n), pub.n)
        /\ CheckedOwn => (verified = "true" /\ err = "none")

\* the index of the message in the valid list that createZkp ends with
kappa == CHOOSE i \in 1..Len(valid) :
            valid[i] = sum /\ \A j \in 1..Len(valid) : valid[j] = sum => j <= i

\* the sum of the challenges of cm modulo the width of the hash, as reduce
\* and mod compute it
esumOf(cm) == JsMod(reduceAdd(cm.e).v, hashMod)

\* the verifier was handed the array a that createZkp hashed
SameArray == vcomm.a = hashA.a /\ reduceAdd(vcomm.e).err = "none"

\* C24: the challenges of a commitment that createZkp returns add up,
\* modulo the width of the hash, to the hash of the array a, e at the index
\* of the message being the representative in [0, 2^HashBits); verifyZkp
\* takes the hash of the same array and does not accept a commitment whose
\* challenges add up to another value: it returns false, or raises
\* MalformedCommitment for the lengths.
ChallengeSum ==
    /\ (Proving /\ commitment # NoCommitment) =>
          /\ hashA.a = commitment.a
          /\ reduceAdd(commitment.e).err = "none"
          /\ esumOf(commitment) = hashA.h
          /\ 0 <= commitment.e[kappa] /\ commitment.e[kappa] < hashMod
          /\ MemberOnce => \A i \in 1..Len(valid) : commitment.e[i] # Hole
    /\ (pc = "zkpchecked" /\ SameArray /\ esumOf(vcomm) # hashA.h) =>
          \/ verified = "false" /\ err = "none"
          \/ verified = "none" /\ err = "MalformedCommitment"

\* a commitment whose e[kappa] wrapped around, checked with one more
\* challenge and one z less: the lengths add up, the sum is off by the
\* added challenge, and verifyZkp returns false
ChallengeSumWitness ==
    /\ pc = "zkpchecked" /\ SameArray
    /\ Len(valid) = 3 /\ MemberOnce
    /\ commitment.e[kappa] > hashA.h
    /\ Len(vcomm.e) = 4 /\ Len(vcomm.z) = 2
    /\ esumOf(vcomm) # hashA.h
    /\ verified = "false" /\ err = "none"

\* the primes generateKeyPair ended with
primeP == CHOOSE x \in kg.primes : \A y \in kg.primes : x <= y
primeQ == CHOOSE x \in kg.primes : \A y \in kg.primes : y <= x

\* u = g^lambda mod n^2 of the key in hand
uOfKey == modPowWide(pub.g, priv.lambda, pub.nSquared)

\* C25: for the primes p # q of equal length that generateKeyPair ends
\* with, gcd(n, (p - 1)(q - 1)) = 1; lambda being lcm(p - 1, q - 1) and
\* g = n + 1, u = g^lambda mod n^2 has u - 1 divisible by n, (u - 1) / n is
\* invertible modulo n, and mu is the inverse of lambda modulo n; and
\* (n + 1)^m mod n^2 = (n * m + 1) mod n^2 for every 0 <= m < n, which is
\* the value encryptWithR takes for g^m.
KeyArithmetic ==
    pc = "keyed" =>
        /\ primeP # primeQ /\ bitLength(primeP) = bitLength(primeQ)
        /\ pub.n = primeP * primeQ
        /\ gcd(pub.n, (primeP - 1) * (primeQ - 1)) = 1
        /\ pub.g = pub.n + 1
        /\ priv.lambda * gcd(primeP - 1, primeQ - 1) = (primeP - 1) * (primeQ - 1)
        /\ (uOfKey - 1) % pub.n = 0
        /\ gcd((uOfKey - 1) \div pub.n, pub.n) = 1
        /\ 0 < priv.mu /\ priv.mu < pub.n
        /\ (priv.lambda * priv.mu) % pub.n = 1
        /\ priv.mu = modInv(priv.lambda % pub.n, pub.n)
        /\ \A m \in 0..(pub.n - 1) :
              /\ modPowWide(pub.g, m, pub.nSquared) = (pub.n * m + 1) % pub.nSquared
              /\ encryptWithR(m, pub, 1).c = modPowWide(pub.g, m, pub.nSquared)

\* the key of p = 17, q = 31: lambda = lcm(16, 30) = 240, mu = 213
KeyArithmeticWitness ==
    /\ pc = "keyed" /\ kg.primes = {17, 31}
    /\ priv.lambda = 240 /\ priv.mu = 213
    /\ uOfKey = 240 * 527 + 1

\* the bits of floor(plain / 2^(slot * B)) mod 2^(B - 1)
fieldOf(slot) ==
    {b \in shiftRight(plain, slot * ballot.bitsPerChoice) : b < ballot.bitsPerChoice - 1}

\* every number decode / decodeGroups returned is the field of its slot
FieldsDecoded ==
    /\ err = "none"
    /\ Len(decoded) = (IF ballot.numBins = 0 THEN 1 ELSE ballot.numBins)
    /\ \A bin \in DOMAIN decoded :
          /\ Len(decoded[bin]) = ballot.numChoices
          /\ \A ch \in DOMAIN decoded[bin] :
                decoded[bin][ch] = fieldOf((bin - 1) * ballot.numChoices + (ch - 1))

\* decode and decodeGroups return the fields for bitsPerChoice below 32
DecodeFieldsBelow32 ==
    (pc = "decoded" /\ ballot.bitsPerChoice < 32) => FieldsDecoded

\* C26: decode, and decodeGroups row by row, either raises BadParameter,
\* which it does whenever 2^B is not below Number.MAX_SAFE_INTEGER, or
\* returns floor(x / 2^(i * B)) mod 2^(B - 1) for every i, for 32 <= B <= 53
\* as well.
DecodeFields ==
    pc = "decoded" =>
        IF ballot.bitsPerChoice >= MaxSafeBits
        THEN err = "BadParameter" /\ decoded = <<>>
        ELSE FieldsDecoded

\* C10: encrypt fails with BadPlaintext for every m >= n and for every
\* m < 0, and returns no ciphertext for such an m.
EncryptRejectsOutOfRange ==
    (pc \in {"encrypted", "failed"} /\ ~InRange(sum)) =>
        (pc = "failed" /\ err = "BadPlaintext" /\ c = None)

====
